---- MODULE Spec2Model ----
(***************************************************************************)
(* Model of the MongoDB model-cache demo.                                  *)
(*                                                                         *)
(* Two programs share the design "profile key -> stored model record ->    *)
(* prediction":                                                            *)
(*   - the linear variant: seed_models.py (writer), predict.py (reader)    *)
(*     and server.py (HTTP boundary) over the collection `col`, whose      *)
(*     documents are keyed by "_id";                                       *)
(*   - the UI variant: app.py, whose train action writes and whose         *)
(*     memoized load_model_from_db reads the collection `model_cache`,     *)
(*     whose documents are keyed by the ordinary field "model_id".         *)
(*                                                                         *)
(* Numbers: weights and biases are stored in tenths (0.1 is 1, 1.0 is 10), *)
(* features are whole numbers, so a prediction is in tenths as well.       *)
(***************************************************************************)
EXTENDS Integers, Sequences, FiniteSets, TLC

VARIABLES
    col,          \* linear variant: the collection, documents in natural order
    storeState,   \* "up" | "unreachable" | "auth": what a store call meets
    seedPc,       \* per run of seed_models.py: models already written
    model_cache,  \* UI variant: the collection big_data_trabalho.model_cache
    nextOid,      \* UI variant: the next ObjectId the store hands out
    trainPc,      \* per UI session: where its train_and_save_models stands
    memo,         \* UI variant: st.cache_data's entries of load_model_from_db
    last          \* the operation just performed, its inputs and its outcome

vars == <<col, storeState, seedPc, model_cache, nextOid, trainPc, memo, last>>

linearVars == <<col, seedPc>>
uiVars == <<model_cache, nextOid, trainPc, memo>>

----------------------------------------------------------------------------
(* Bounds *)

NumSeeders == 2      \* concurrent runs of seed_models.py
MaxFeatLen == 3      \* longest feature vector a caller supplies
NumSessions == 2     \* concurrent UI sessions
NumFits == 2         \* distinct fitted models a train action may produce

SeedProcs == 1..NumSeeders
Sessions == 1..NumSessions

----------------------------------------------------------------------------
(* Values shared by both variants *)

\* Python's None, which `not x` treats like an empty document.
None == <<>>

\* What a store call raises when the store cannot serve it.
StoreError(state) ==
    IF state = "unreachable" THEN "ServerSelectionTimeoutError"
    ELSE "OperationFailure"

\* Python's `except ValueError`: the classes it catches.  The store's errors
\* derive from PyMongoError, not from ValueError.
IsValueError(exc) == exc = "ValueError"

Min(a, b) == IF a <= b THEN a ELSE b

----------------------------------------------------------------------------
(* Linear variant: the collection keyed by "_id" *)

\* seed_models.py's default records.
models ==
    << [_id |-> "novato",  weights |-> <<1, 2, 3>>, bias |-> 5],
       [_id |-> "premium", weights |-> <<4, 5, 6>>, bias |-> 10] >>

\* Indexes of the documents of c whose _id is key.
MatchById(c, key) == {i \in 1..Len(c) : c[i]._id = key}

FirstOf(S) == CHOOSE i \in S : \A j \in S : i <= j

\* col.find_one({"_id": key}): the first match, or None.
find_one(c, key) ==
    IF MatchById(c, key) = {} THEN None ELSE c[FirstOf(MatchById(c, key))]

\* The mutant: the write is skipped when the collection already holds records.
replace_one_if_empty(c, key, m) ==
    IF Len(c) > 0 THEN c ELSE Append(c, m)

\* The mutant: a plain insert.
replace_one_as_insert(c, key, m) == Append(c, m)

\* col.replace_one({"_id": key}, m, upsert=True): the matched document is
\* replaced whole by m; with no match m is inserted.  The store's unique index
\* on _id makes the match and the insert one step.
replace_one(c, key, m) ==
    IF MatchById(c, key) = {} THEN Append(c, m)
    ELSE [c EXCEPT ![FirstOf(MatchById(c, key))] = m]

\* Python's zip: pairs up to the shorter argument's length.
Zip(f, w) == [i \in 1..Min(Len(f), Len(w)) |-> <<f[i], w[i]>>]

\* Python's sum over the generator f * w, from 0, left to right.
RECURSIVE SumProducts(_)
SumProducts(pairs) ==
    IF pairs = <<>> THEN 0
    ELSE SumProducts(SubSeq(pairs, 1, Len(pairs) - 1))
         + pairs[Len(pairs)][1] * pairs[Len(pairs)][2]

\* f"Perfil '{profile}' ... no cache.", its parts in ASCII.
NotFoundMessage(profile) == <<"Perfil '", profile, "' nao encontrado no cache.">>

\* The mutant: the bias is left out.
predict_no_bias(features, profile, c, state) ==
    IF state # "up" THEN [kind |-> "raise", exc |-> StoreError(state)]
    ELSE IF find_one(c, profile) = None
    THEN [kind |-> "raise", exc |-> "ValueError", message |-> NotFoundMessage(profile)]
    ELSE [kind |-> "return",
          value |-> SumProducts(Zip(features, find_one(c, profile).weights))]

\* The mutant: an unknown profile is served a prediction of 0.
predict_default(features, profile, c, state) ==
    IF state # "up" THEN [kind |-> "raise", exc |-> StoreError(state)]
    ELSE IF find_one(c, profile) = None
    THEN [kind |-> "return", value |-> 0]
    ELSE [kind |-> "return",
          value |-> SumProducts(Zip(features, find_one(c, profile).weights))
                    + find_one(c, profile).bias]

\* predict(features, profile) against collection c, the store being in `state`.
predict(features, profile, c, state) ==
    IF state # "up" THEN [kind |-> "raise", exc |-> StoreError(state)]
    ELSE IF find_one(c, profile) = None
    THEN [kind |-> "raise", exc |-> "ValueError", message |-> NotFoundMessage(profile)]
    ELSE [kind |-> "return",
          value |-> SumProducts(Zip(features, find_one(c, profile).weights))
                    + find_one(c, profile).bias]

\* The mutant: every exception is answered 404.
api_predict_catch_all(features, profile, c, state) ==
    LET r == predict(features, profile, c, state) IN
    IF r.kind = "return"
    THEN [kind |-> "return", body |-> [profile |-> profile, prediction |-> r.value]]
    ELSE [kind |-> "raise", exc |-> "HTTPException", status_code |-> 404,
          detail |-> IF "message" \in DOMAIN r THEN r.message ELSE <<r.exc>>]

\* server.py's api_predict: a ValueError becomes HTTPException(404) carrying
\* its message; any other exception leaves the handler as it is.
api_predict(features, profile, c, state) ==
    LET r == predict(features, profile, c, state) IN
    IF r.kind = "return"
    THEN [kind |-> "return", body |-> [profile |-> profile, prediction |-> r.value]]
    ELSE IF IsValueError(r.exc)
    THEN [kind |-> "raise", exc |-> "HTTPException", status_code |-> 404,
          detail |-> r.message]
    ELSE r

----------------------------------------------------------------------------
(* Inputs and prior store contents of the linear variant *)

Profiles == {"novato", "premium", "vip", "ghost"}

RECURSIVE SeqsUpTo(_, _)
SeqsUpTo(S, n) ==
    IF n = 0 THEN {<<>>}
    ELSE SeqsUpTo(S, n - 1)
         \cup {Append(s, x) : s \in {t \in SeqsUpTo(S, n - 1) : Len(t) = n - 1}, x \in S}

FeatureValues == {1, 2}

FeatureVectors == SeqsUpTo(FeatureValues, MaxFeatLen)

\* Records an earlier writer may have left in the store: a user-trained model
\* under a default id (narrower, and with a description), and one under an id
\* the seeding script does not know.
PriorDocs ==
    { [_id |-> "novato", weights |-> <<2, 1>>, bias |-> 3, description |-> "treinado"],
      [_id |-> "vip", weights |-> <<1, 1, 1>>, bias |-> 0] }

\* The store the programs start against: empty, already seeded, or holding
\* prior records (at most one per _id, which the store enforces).
PriorStores ==
    { <<>>, models }
    \cup { <<d>> : d \in PriorDocs }
    \cup { s \in { <<d, e>> : d \in PriorDocs, e \in PriorDocs } : s[1]._id # s[2]._id }

----------------------------------------------------------------------------
(* UI variant: the collection keyed by the field "model_id" *)

\* @st.cache_data(ttl=600): seconds an entry of the memo stays valid.
TTL == 600

\* train_and_save_models's `models`, in the dictionary's order.
TrainModels == <<"modelo_basico", "modelo_premium">>

ModelIds == {TrainModels[i] : i \in 1..Len(TrainModels)}

\* The estimators model.fit may produce.  The fit is seeded, so what it
\* produces depends only on the installed library and its data set; the model
\* leaves that open and draws the outcome from Fits.
Fits == 1..NumFits

\* joblib.dump into a buffer, and the buffer read back: the estimator wrapped
\* as binary data.  joblib.load unwraps it.
joblib_dump(model) == <<"joblib", model>>

joblib_load(data) == data[2]

\* accuracy_score on the held-out split, in percent: decided by the estimator.
accuracy_score(model) == 100 - model.fit

\* The f-string of the document's description ('basico' in name).
Description(name) ==
    <<"Modelo treinado para o perfil '",
      IF name = "modelo_basico" THEN "Basico" ELSE "Premium", "'">>

\* The document train_and_save_models prepares for the model `name`, fitted
\* to the estimator numbered v.
TrainDoc(name, v) ==
    [model_id |-> name,
     model_data |-> joblib_dump([name |-> name, fit |-> v]),
     accuracy |-> accuracy_score([name |-> name, fit |-> v]),
     description |-> Description(name)]

\* Indexes of the documents of c whose model_id is key.
MatchByModelId(c, key) ==
    {i \in 1..Len(c) : "model_id" \in DOMAIN c[i] /\ c[i].model_id = key}

\* collection.find_one({"model_id": key}): the first match, or None.
find_one_model(c, key) ==
    IF MatchByModelId(c, key) = {} THEN None ELSE c[FirstOf(MatchByModelId(c, key))]

\* {"$set": set} applied to document d: the named fields are overwritten or
\* added, every other field of d stays.
ApplySet(d, set) ==
    [f \in DOMAIN d \cup DOMAIN set |-> IF f \in DOMAIN set THEN set[f] ELSE d[f]]

\* update_one({"model_id": key}, {"$set": set}, upsert=True), a match found:
\* the first matching document is updated in place.
update_one_matched(c, key, set) ==
    [c EXCEPT ![FirstOf(MatchByModelId(c, key))] = ApplySet(@, set)]

\* update_one(..., upsert=True), no match found: a document is built from the
\* filter and the update, and inserted under a fresh _id.
update_one_inserted(c, key, set, oid) ==
    Append(c, ApplySet([_id |-> oid, model_id |-> key], set))

\* The body of load_model_from_db: the store is read, a missing model stops
\* the script run, a found one is deserialized.
load_model_from_db(c, model_id, state) ==
    IF state # "up" THEN [kind |-> "raise", exc |-> StoreError(state)]
    ELSE IF find_one_model(c, model_id) = None THEN [kind |-> "stop"]
    ELSE LET model_doc == find_one_model(c, model_id) IN
         [kind |-> "return",
          model |-> joblib_load(model_doc.model_data),
          description |-> IF "description" \in DOMAIN model_doc
                          THEN model_doc.description ELSE <<"Sem descricao">>,
          accuracy |-> IF "accuracy" \in DOMAIN model_doc
                       THEN model_doc.accuracy ELSE 0]

\* Whether the memo holds an entry for model_id that has not expired.
MemoHit(m, model_id) == m[model_id] # None /\ m[model_id].age < TTL

\* The call through @st.cache_data: a valid entry is returned without the
\* body running; otherwise the body runs.
cached_load(m, c, model_id, state) ==
    IF MemoHit(m, model_id) THEN m[model_id].value
    ELSE load_model_from_db(c, model_id, state)

\* The memo after the call: only a returned value is stored (an exception or
\* st.stop() leaves the function without a value to store).
memo_after(m, c, model_id, state) ==
    IF MemoHit(m, model_id) THEN m
    ELSE IF load_model_from_db(c, model_id, state).kind = "return"
    THEN [m EXCEPT ![model_id] =
             [value |-> load_model_from_db(c, model_id, state), age |-> 0]]
    ELSE [m EXCEPT ![model_id] = None]

\* Documents an earlier deployment may have left in model_cache: its trained
\* models, or a model stored in an earlier document shape (no description or
\* accuracy, which load_model_from_db allows for, and its own field).
PriorCaches ==
    { <<>>,
      <<ApplySet([_id |-> 1], TrainDoc("modelo_basico", 1)),
        ApplySet([_id |-> 2], TrainDoc("modelo_premium", 1))>>,
      <<[_id |-> 1, model_id |-> "modelo_basico",
         model_data |-> joblib_dump([name |-> "modelo_basico", fit |-> 1]),
         version |-> 1]>> }

----------------------------------------------------------------------------
(* Operations of the linear variant *)

\* seed_models.py, one pass of `for m in models`: the next default record is
\* written unconditionally.  A store failure ends the run with the exception.
SeedReplace(p) ==
    /\ seedPc[p] < Len(models)
    /\ LET m == models[seedPc[p] + 1] IN
       IF storeState = "up"
       THEN /\ col' = replace_one(col, m._id, m)
            /\ seedPc' = [seedPc EXCEPT ![p] = @ + 1]
            /\ last' = [op |-> "replace_one", proc |-> p, doc |-> m,
                        written |-> seedPc[p], before |-> col]
       ELSE /\ col' = col
            /\ seedPc' = [seedPc EXCEPT ![p] = 0]
            /\ last' = [op |-> "seed_raise", proc |-> p, exc |-> StoreError(storeState)]
    /\ UNCHANGED <<storeState, uiVars>>

\* seed_models.py, after the loop: the collection is read and printed, and
\* the run ends.
SeedPrint(p) ==
    /\ seedPc[p] = Len(models)
    /\ seedPc' = [seedPc EXCEPT ![p] = 0]
    /\ last' = IF storeState = "up"
               THEN [op |-> "seed_print", proc |-> p, docs |-> col]
               ELSE [op |-> "seed_raise", proc |-> p, exc |-> StoreError(storeState)]
    /\ UNCHANGED <<col, storeState, uiVars>>

\* The mutant: a miss stores a default record for the profile.
PredictUpsertOnMiss ==
    \E f \in FeatureVectors, p \in Profiles :
        /\ last' = [op |-> "predict", features |-> f, profile |-> p,
                    result |-> predict(f, p, col, storeState)]
        /\ col' = IF storeState = "up" /\ find_one(col, p) = None
                  THEN Append(col, [_id |-> p, weights |-> <<>>, bias |-> 0])
                  ELSE col
        /\ UNCHANGED <<storeState, seedPc, uiVars>>

\* predict.py run as a script: one call of predict.
Predict ==
    \E f \in FeatureVectors, p \in Profiles :
        /\ last' = [op |-> "predict", features |-> f, profile |-> p,
                    result |-> predict(f, p, col, storeState)]
        /\ UNCHANGED <<col, storeState, seedPc, uiVars>>

\* POST /predict.
ApiPredict ==
    \E f \in FeatureVectors, p \in Profiles :
        /\ last' = [op |-> "api_predict", features |-> f, profile |-> p,
                    response |-> api_predict(f, p, col, storeState)]
        /\ UNCHANGED <<col, storeState, seedPc, uiVars>>

\* The environment: the store becomes unreachable, rejects the credentials,
\* or recovers.
StoreChange ==
    \E s \in {"up", "unreachable", "auth"} \ {storeState} :
        /\ storeState' = s
        /\ last' = [op |-> "env"]
        /\ UNCHANGED <<linearVars, uiVars>>

InitCommon ==
    /\ storeState = "up"
    /\ seedPc = [p \in SeedProcs |-> 0]
    /\ last = [op |-> "start"]

InitLinear ==
    /\ InitCommon
    /\ col \in PriorStores
    /\ model_cache = <<>>
    /\ nextOid = 1
    /\ trainPc = [s \in Sessions |-> [at |-> 0, pending |-> None]]
    /\ memo = [id \in ModelIds |-> None]

\* The linear variant served while the seeding script is (re)run.
NextLinear ==
    \/ SeedReplace(1)
    \/ SeedPrint(1)
    \/ Predict
    \/ ApiPredict
    \/ StoreChange

SpecLinear == InitLinear /\ [][NextLinear]_vars

\* Concurrent runs of the seeding script.
NextSeeders ==
    \/ \E p \in SeedProcs : SeedReplace(p)
    \/ \E p \in SeedProcs : SeedPrint(p)
    \/ StoreChange

SpecSeeders == InitLinear /\ [][NextSeeders]_vars

----------------------------------------------------------------------------
(* Operations of the UI variant *)

\* The train button, one pass of `for name, model in models.items()` up to
\* the store's search for a match: the model is fitted and its document
\* prepared; a matching document is updated, and with none the upsert goes on
\* to insert.  model_id carries no unique index, so the store does not make
\* the search and the insert one step: another writer may insert in between.
TrainUpdate(s) ==
    /\ trainPc[s].pending = None
    /\ \E v \in Fits :
         LET name == TrainModels[trainPc[s].at + 1]
             doc == TrainDoc(name, v) IN
         IF storeState # "up"
         THEN /\ trainPc' = [trainPc EXCEPT ![s] = [at |-> 0, pending |-> None]]
              /\ last' = [op |-> "train_raise", session |-> s,
                          exc |-> StoreError(storeState)]
              /\ UNCHANGED model_cache
         ELSE IF MatchByModelId(model_cache, name) # {}
         THEN /\ model_cache' = update_one_matched(model_cache, name, doc)
              /\ trainPc' = [trainPc EXCEPT ![s] =
                                [at |-> (@.at + 1) % Len(TrainModels), pending |-> None]]
              /\ last' = [op |-> "update_one", session |-> s, key |-> name,
                          set |-> doc, before |-> find_one_model(model_cache, name)]
         ELSE /\ trainPc' = [trainPc EXCEPT ![s].pending = doc]
              /\ last' = [op |-> "update_one_nomatch", session |-> s, key |-> name]
              /\ UNCHANGED model_cache
    /\ UNCHANGED <<storeState, linearVars, nextOid, memo>>

\* The insert that ends an upsert which found no match.
TrainInsert(s) ==
    /\ trainPc[s].pending # None
    /\ LET doc == trainPc[s].pending IN
         /\ model_cache' = update_one_inserted(model_cache, doc.model_id, doc, nextOid)
         /\ last' = [op |-> "update_one_insert", session |-> s, key |-> doc.model_id,
                     set |-> doc, raced |-> MatchByModelId(model_cache, doc.model_id) # {}]
    /\ nextOid' = nextOid + 1
    /\ trainPc' = [trainPc EXCEPT ![s] =
                      [at |-> (@.at + 1) % Len(TrainModels), pending |-> None]]
    /\ UNCHANGED <<storeState, linearVars, memo>>

\* The predict button: the model of the selected user type is loaded through
\* the memo and used for the prediction.
UIPredict ==
    \E model_id \in ModelIds :
        /\ last' = [op |-> "load", model_id |-> model_id,
                    hit |-> MemoHit(memo, model_id),
                    result |-> cached_load(memo, model_cache, model_id, storeState)]
        /\ memo' = memo_after(memo, model_cache, model_id, storeState)
        /\ UNCHANGED <<storeState, linearVars, model_cache, nextOid, trainPc>>

\* Time passes: every entry of the memo ages by half its time to live.
Tick ==
    /\ \E id \in ModelIds : MemoHit(memo, id)
    /\ memo' = [id \in ModelIds |->
                   IF memo[id] = None THEN None
                   ELSE [memo[id] EXCEPT !.age = Min(@ + TTL \div 2, TTL)]]
    /\ last' = [op |-> "tick"]
    /\ UNCHANGED <<storeState, linearVars, model_cache, nextOid, trainPc>>

InitUI ==
    /\ InitCommon
    /\ col = <<>>
    /\ model_cache \in PriorCaches
    /\ nextOid = Len(model_cache) + 1
    /\ trainPc = [s \in Sessions |-> [at |-> 0, pending |-> None]]
    /\ memo = [id \in ModelIds |-> None]

\* The UI variant: sessions that train and predict.
NextUI ==
    \/ \E s \in Sessions : TrainUpdate(s)
    \/ \E s \in Sessions : TrainInsert(s)
    \/ UIPredict
    \/ Tick
    \/ StoreChange

SpecUI == InitUI /\ [][NextUI]_vars

\* The readers of both variants against every prior content of the stores.
InitReaders ==
    /\ InitCommon
    /\ col \in PriorStores
    /\ model_cache \in PriorCaches
    /\ nextOid = Len(model_cache) + 1
    /\ trainPc = [s \in Sessions |-> [at |-> 0, pending |-> None]]
    /\ memo = [id \in ModelIds |-> None]

NextReaders ==
    \/ Predict
    \/ ApiPredict
    \/ UIPredict
    \/ Tick
    \/ StoreChange

SpecReaders == InitReaders /\ [][NextReaders]_vars

----------------------------------------------------------------------------
(* Claims *)

Range(f) == {f[i] : i \in DOMAIN f}

\* The sum over every position i in 1..n of f[i] * w[i].
RECURSIVE SumOverPositions(_, _, _)
SumOverPositions(f, w, n) ==
    IF n = 0 THEN 0 ELSE SumOverPositions(f, w, n - 1) + f[n] * w[n]

\* Document d without its _id.
WithoutId(d) == [f \in DOMAIN d \ {"_id"} |-> d[f]]

\* C1: when the store holds a record for the profile and the feature vector's
\* length differs from the length of the stored weights, predict fails with a
\* FeatureLengthMismatch error and returns no prediction.
C1_LengthMismatchFails ==
    (/\ last.op = "predict"
     /\ storeState = "up"
     /\ find_one(col, last.profile) # None
     /\ Len(last.features) # Len(find_one(col, last.profile).weights))
    => (/\ last.result.kind = "raise"
        /\ last.result.exc = "FeatureLengthMismatch")

C3_UnknownProfileIsNotFound ==
    /\ (/\ last.op = "predict"
        /\ storeState = "up"
        /\ MatchById(col, last.profile) = {})
       => (/\ last.result.kind = "raise"
           /\ last.result.exc = "ValueError"
           /\ last.profile \in Range(last.result.message))
    /\ (/\ last.op = "api_predict"
        /\ storeState = "up"
        /\ MatchById(col, last.profile) = {})
       => (/\ last.response.kind = "raise"
           /\ last.response.exc = "HTTPException"
           /\ last.response.status_code = 404
           /\ last.response.detail = NotFoundMessage(last.profile)
           /\ last.profile \in Range(last.response.detail))

\* C3's case: POST /predict for "ghost", which the store does not hold, was
\* answered 404.
C3_Witness ==
    /\ last.op = "api_predict"
    /\ last.profile = "ghost"
    /\ storeState = "up"
    /\ last.response.kind = "raise"
    /\ last.response.status_code = 404

\* C4: for a stored linear record and a feature vector as long as its
\* weights, predict returns the sum over all positions of
\* features[i] * weights[i], plus the bias, and nothing else applied.
C4_LinearCombination ==
    (/\ last.op = "predict"
     /\ storeState = "up"
     /\ find_one(col, last.profile) # None
     /\ Len(last.features) = Len(find_one(col, last.profile).weights))
    => LET d == find_one(col, last.profile) IN
       /\ last.result.kind = "return"
       /\ last.result.value
            = SumOverPositions(last.features, d.weights, Len(d.weights)) + d.bias

\* C4's case: the seeded "premium" record, weights [0.4, 0.5, 0.6] and bias
\* 1.0, with features [1, 1, 1] gave 2.5.
C4_Witness ==
    /\ last.op = "predict"
    /\ last.profile = "premium"
    /\ last.features = <<1, 1, 1>>
    /\ find_one(col, "premium") = models[2]
    /\ last.result.kind = "return"
    /\ last.result.value = 25

\* C5: after upsert(r) the document stored under r's key has exactly the
\* fields and values of r, whichever writer upserted: no field of the
\* document stored before survives.
C5_UpsertReplacesWholeDocument ==
    /\ last.op = "replace_one" => find_one(col, last.doc._id) = last.doc
    /\ last.op = "update_one"
       => WithoutId(find_one_model(model_cache, last.key)) = last.set
    /\ (last.op = "update_one_insert" /\ ~last.raced)
       => WithoutId(find_one_model(model_cache, last.key)) = last.set

\* C6: POST /predict answers 404 only when the store was reached and holds no
\* record for the profile; a store failure ends the request with a failure
\* that is neither a 404 nor a prediction.
C6_StoreFailureIsNot404 ==
    last.op = "api_predict" =>
        /\ (last.response.kind = "raise" /\ last.response.exc = "HTTPException")
           => (/\ storeState = "up"
               /\ MatchById(col, last.profile) = {}
               /\ last.response.status_code = 404)
        /\ storeState # "up"
           => (/\ last.response.kind = "raise"
               /\ last.response.exc = StoreError(storeState)
               /\ last.response.exc # "HTTPException")

\* C6's case: POST /predict met an unreachable store and ended with the
\* store's own error.
C6_Witness ==
    /\ last.op = "api_predict"
    /\ storeState = "unreachable"
    /\ last.response.kind = "raise"
    /\ last.response.exc = "ServerSelectionTimeoutError"

\* C7: under every interleaving of the writers, the store never holds two
\* records with the same id, and a record never mixes fields of two writes
\* (the accuracy stored with a model is that model's).
C7_OneWholeRecordPerId ==
    /\ \A k \in Profiles : Cardinality(MatchById(col, k)) <= 1
    /\ \A k \in ModelIds : Cardinality(MatchByModelId(model_cache, k)) <= 1
    /\ \A i \in 1..Len(model_cache) :
          "accuracy" \in DOMAIN model_cache[i]
          => model_cache[i].accuracy
               = accuracy_score(joblib_load(model_cache[i].model_data))

\* C8: an upsert of a record the store already holds leaves the store as it
\* was, and the seeding script, however often and however interleaved it
\* runs, leaves no more than one record per seeded id, and exactly one when a
\* run completes.
C8_UpsertIdempotent ==
    /\ (last.op = "replace_one" /\ find_one(last.before, last.doc._id) = last.doc)
       => col = last.before
    /\ \A i \in 1..Len(models) : Cardinality(MatchById(col, models[i]._id)) <= 1
    /\ last.op = "seed_print"
       => \A i \in 1..Len(models) : Cardinality(MatchById(col, models[i]._id)) = 1

\* C8's case: the seeding script ran over a store that already held its
\* record, and completed.
C8_Witness ==
    /\ last.op = "replace_one"
    /\ last.written = Len(models) - 1
    /\ find_one(last.before, last.doc._id) = last.doc
    /\ col = last.before
    /\ col = models

\* C9: a prediction (predict, POST /predict, the UI's load) leaves both
\* collections as they were, whether it succeeds or fails.
C9_PredictionReadsOnly ==
    [][last'.op \in {"predict", "api_predict", "load"}
       => (col' = col /\ model_cache' = model_cache)]_vars

\* C9's case: a prediction failed on an unknown profile while the store held
\* records.
C9_Witness ==
    /\ last.op = "predict"
    /\ last.result.kind = "raise"
    /\ last.result.exc = "ValueError"
    /\ col # <<>>

\* C10: a load that returns a model returns the one the store holds for that
\* id at that moment, also when a train action has replaced it since the
\* load before.
C10_LoadReturnsStoredModel ==
    (last.op = "load" /\ last.result.kind = "return")
    => (/\ find_one_model(model_cache, last.model_id) # None
        /\ last.result.model
             = joblib_load(find_one_model(model_cache, last.model_id).model_data))

====
